---- MODULE Spec2Model ----
(***************************************************************************)
(* A model of seastar's fair_queue (src/src/core/fair_queue.cc): one fair  *)
(* queue of one shard dispatching against its fair_group.  The queue code  *)
(* is translated statement by statement; the shared token bucket, whose    *)
(* implementation is not part of the sources, follows the contract of the  *)
(* specification (grab advances the tail rover, release and replenish the  *)
(* head rover, deficiency is the wrap-aware distance to the head).         *)
(*                                                                         *)
(* capacity_t is a 64-bit unsigned integer.  The model keeps the modular   *)
(* arithmetic and scales the width down: accumulators are AccBits wide,    *)
(* rovers RoverBits wide.                                                  *)
(***************************************************************************)
EXTENDS Integers, Sequences, FiniteSets, TLC

\* ------------------------------------------------------------------ bounds
NClasses == 3              \* class ids 1..NClasses
MainIds == 2               \* the ids the callers of Spec register
MaxShareUpdates == 1       \* calls of update_shares_for_class
MaxEntries == 2            \* entries ever queued
MaxTime == 1               \* clock ticks (rate_resolution units)
AccBits == 4               \* scaled width of an accumulator
RoverBits == 7             \* scaled width of a gate rover
NShards == 2               \* shards calling the gate concurrently
MaxGateCalls == 4          \* gate calls the shards make in a run of SpecGate
MaxDispatches == 10000     \* dispatches in a run of SpecShare
ShareBits == 24            \* scaled width of an accumulator in SpecShare
TicketBits == 3            \* scaled width of a ticket component
XMax == 4                  \* std::numeric_limits<size_t>::max(), scaled
MaxSteps == 3              \* add_step calls in a run of SpecStairs

\* --------------------------------------------------------------- constants
FixedPointFactor == 2      \* fair_group::fixed_point_factor, scaled
SmpCount == 1              \* smp::count
TauTicks == 1              \* rate_cast(config.tau).count()
RateFactor == 1            \* fair_group::config::rate_factor
RateLimitTicks == 1        \* rate_cast(cfg.rate_limit_duration).count()

Classes == 1..NClasses
Shards == 1..NShards
AccMod == 2 ^ AccBits
SignedMax == 2 ^ (AccBits - 1) - 1
RoverMod == 2 ^ RoverBits

\* the shares callers pass to register/update_shares (0 is raised to 1)
RegisterShares == {0}
ShareInputs == {0, 2}
\* the tickets callers queue: <<weight, size>>
ZeroTicket == <<0, 0>>
TicketInputs == {<<0, 1>>, <<1, 0>>}
\* the axis (W, S) of the cost model
CostCapacity == <<1, 2>>

VARIABLES
    priority_classes,    \* class id -> priority_class_data (NullClass: no class)
    handles,             \* the binary heap under std::priority_queue
    last_accumulated,
    pending,             \* std::optional<pending>
    group_replenish,     \* the shard-local replenish timestamp
    resources_executing,
    resources_queued,
    requests_executing,
    requests_queued,
    capacity_tail,       \* gate: tokens ever reserved
    capacity_head,       \* gate: tokens ever made available
    replenished,         \* gate: time of the last replenish
    failed,              \* "" or the assertion that aborted the process
    ndebug,              \* the build: TRUE when assert() compiles to nothing
    now,                 \* the clock
    dpc,                 \* position of dispatch_requests: "idle" or "loop"
    dispatched,          \* dispatch_requests' local
    preempt,             \* dispatch_requests' local
    gr,                  \* dispatch_requests' local: the last grab result, with
                         \* the function that decided it and the excess it gave back
    cb_last,             \* the latest call of cb: its number, class and entry
    executing,           \* tickets dispatched and not yet finished
    next_id,             \* entries queued so far
    share_updates,       \* calls of update_shares_for_class so far
    history,             \* the calls made before the run starts, still to make
    pending_owner,       \* the class and entry whose grab made the latest reservation
    shards,              \* shard -> its position in a gate call and that call's locals
    tally,               \* what the gate calls that returned so far have done
    tickets,             \* two fair_queue_tickets and their wrapping_difference
    steps,               \* staircase::_steps
    added                \* the add_step calls made so far, in order

qvars == <<priority_classes, handles, last_accumulated, pending, group_replenish,
           resources_executing, resources_queued, requests_executing,
           requests_queued, capacity_tail, capacity_head, replenished, failed>>
lvars == <<dpc, dispatched, preempt, gr>>
pvars == <<tickets, steps, added>>
gvars == <<shards, tally, pvars>>
evars == <<ndebug, now, cb_last, executing, next_id, share_updates, history,
           pending_owner, gvars>>
vars == <<qvars, lvars, evars>>

\* ------------------------------------------------------------- cost model
Max(a, b) == IF a >= b THEN a ELSE b
Min(a, b) == IF a <= b THEN a ELSE b

TicketAdd(a, b) == <<a[1] + b[1], a[2] + b[2]>>
TicketSub(a, b) == <<a[1] - b[1], a[2] - b[2]>>

\* t.normalize(_cost_capacity) * fixed_point_factor, truncated to capacity_t
ticket_capacity(t) ==
    ((t[1] * CostCapacity[2] + t[2] * CostCapacity[1]) * FixedPointFactor)
        \div (CostCapacity[1] * CostCapacity[2])

\* the token bucket's parameters, as fair_group's constructor passes them
ReplenishRate == RateFactor * FixedPointFactor
ReplenishLimit == RateFactor * FixedPointFactor * RateLimitTicks
ReplenishThreshold == ticket_capacity(<<0, 1>>)

\* the tokens the peer shards of the group have grabbed when this queue starts
PeerGrabs == {0, ReplenishLimit, ReplenishLimit + 1}

\* ------------------------------------------------------------------- heap
\* std::push_heap's sift-up with class_compare (lhs > rhs on _accumulated);
\* a is the vector, hole a 1-based index, v the class being placed
RECURSIVE SiftUp(_, _, _, _)
SiftUp(a, hole, v, pcs) ==
    IF hole > 1 /\ pcs[a[hole \div 2]].accumulated > pcs[v].accumulated
    THEN SiftUp([a EXCEPT ![hole] = a[hole \div 2]], hole \div 2, v, pcs)
    ELSE [a EXCEPT ![hole] = v]

\* std::priority_queue::push: push_back, then push_heap
HeapPush(h, v, pcs) == SiftUp(Append(h, v), Len(h) + 1, v, pcs)

\* std::__adjust_heap's descent: the hole (0-based) moves to the child that
\* does not compare lower, down to a leaf; returns <<vector, hole>>
RECURSIVE AdjustDown(_, _, _, _)
AdjustDown(a, hole, len, pcs) ==
    IF hole < (len - 1) \div 2
    THEN LET r == 2 * (hole + 1)
             c == IF pcs[a[r + 1]].accumulated > pcs[a[r]].accumulated
                  THEN r - 1 ELSE r
         IN  AdjustDown([a EXCEPT ![hole + 1] = a[c + 1]], c, len, pcs)
    ELSE IF len % 2 = 0 /\ hole = (len - 2) \div 2
         THEN LET c == 2 * (hole + 1) - 1
              IN  <<[a EXCEPT ![hole + 1] = a[c + 1]], c>>
         ELSE <<a, hole>>

\* std::priority_queue::pop: pop_heap (the top goes last), then pop_back
HeapPop(h, pcs) ==
    IF Len(h) <= 1 THEN <<>>
    ELSE LET len == Len(h) - 1
             value == h[Len(h)]
             d == AdjustDown(SubSeq(h, 1, len), 0, len, pcs)
         IN  SiftUp(d[1], d[2] + 1, value, pcs)

bottom(h) == h[Len(h)]
\* std::priority_queue::top
top(h) == h[1]

InHeap(h, c) == \E i \in 1..Len(h) : h[i] = c
HeapCount(h, c) == Cardinality({i \in 1..Len(h) : h[i] = c})

\* the intrusive FIFO of a class
push_front(q, ent) == <<ent>> \o q
push_back(q, ent) == Append(q, ent)
pop_front(q) == Tail(q)
front(q) == Head(q)

\* ------------------------------------------------------- program state
NullClass == [present |-> FALSE, shares |-> 0, accumulated |-> 0,
              pure_accumulated |-> 0, queue |-> <<>>, queued |-> FALSE,
              plugged |-> FALSE, slot |-> FALSE]

\* priority_class_data's constructor
NewClass(sh) == [present |-> TRUE, shares |-> Max(sh, 1), accumulated |-> 0,
                 pure_accumulated |-> 0, queue |-> <<>>, queued |-> FALSE,
                 plugged |-> TRUE, slot |-> TRUE]

NoCall == [n |-> 0, cls |-> 0, id |-> 0, ticket |-> ZeroTicket]

NoGrab == [result |-> "none", via |-> "none", excess |-> 0]

NoOwner == [cls |-> 0, id |-> 0]

NoPending == [set |-> FALSE, head |-> 0, cap |-> 0]

\* a shard outside the gate: cur is the expected value of its compare-exchange,
\* cap the amount it adds, at the time point its replenish was called with,
\* ts its local replenish timestamp, target and order the head value and the
\* rank on the tail of the latest reservation it took, goal the same head
\* value counted without the wrap
IdleShard == [pc |-> "idle", cur |-> 0, cap |-> 0, at |-> 0, ts |-> 0,
              target |-> 0, order |-> 0, goal |-> 0]

\* sums over the gate calls that returned: tokens grabbed, tokens released,
\* clock ticks credited to the head by replenish and the tokens it added; the
\* calls begun; the rank of the latest grab; the rover values the run started
\* from
NoTally == [calls |-> 0, grabbed |-> 0, released |-> 0, credited |-> 0,
            added |-> 0, order |-> 0, tail0 |-> 0, head0 |-> 0]

\* the fair queue and its group as one record, for the sequential code below
Cur == [pcs |-> priority_classes, handles |-> handles,
        last_accumulated |-> last_accumulated, pending |-> pending,
        group_replenish |-> group_replenish,
        resources_executing |-> resources_executing,
        resources_queued |-> resources_queued,
        requests_executing |-> requests_executing,
        requests_queued |-> requests_queued,
        tail |-> capacity_tail, head |-> capacity_head,
        replenished |-> replenished, failed |-> failed]

Commit(s) ==
    /\ priority_classes' = s.pcs
    /\ handles' = s.handles
    /\ last_accumulated' = s.last_accumulated
    /\ pending' = s.pending
    /\ group_replenish' = s.group_replenish
    /\ resources_executing' = s.resources_executing
    /\ resources_queued' = s.resources_queued
    /\ requests_executing' = s.requests_executing
    /\ requests_queued' = s.requests_queued
    /\ capacity_tail' = s.tail
    /\ capacity_head' = s.head
    /\ replenished' = s.replenished
    /\ failed' = s.failed

\* assert(cond): nothing when it holds or when the build drops assertions,
\* otherwise the process aborts
Asserted(s, cond, what) ==
    IF cond \/ ndebug THEN s ELSE [s EXCEPT !.failed = what]

\* a signed_capacity_t read of a stored capacity_t
ToSigned(x) == IF x > SignedMax THEN x - AccMod ELSE x

\* --------------------------------------------------------------- the gate
\* the distance from head to from taken on the stored values as they are
deficiency_unwrapped(s, from) == Max(from - s.head, 0)

\* token bucket deficiency(from): the wrap-aware distance from head to from
capacity_deficiency(s, from) ==
    LET d == (from - s.head) % RoverMod
    IN  IF d < RoverMod \div 2 THEN d ELSE 0

\* fair_group::grab_capacity: the tail advances by cap; the result is the
\* head value the reservation waits for
GrabbedHead(s, cap) == (s.tail + cap) % RoverMod

grab_capacity_group(s, cap) ==
    LET a == Asserted(s, cap <= ReplenishLimit, "grab_capacity")
    IN  IF a.failed # "" THEN a
        ELSE [a EXCEPT !.tail = GrabbedHead(s, cap)]

\* fair_group::release_capacity: the head advances by cap
release_capacity(s, cap) == [s EXCEPT !.head = (s.head + cap) % RoverMod]

\* tokens earned over delta ticks
accumulated_in(delta) == ReplenishRate * delta

\* fair_group::replenish_capacity: the head advances by the tokens earned
\* since the last replenish, but not past tail + limit
replenish_capacity(s, t) ==
    LET extra == accumulated_in(t - s.replenished)
        ahead == (s.head - s.tail) % RoverMod
        avail == IF ahead < RoverMod \div 2 THEN ahead ELSE ahead - RoverMod
        room  == Max(ReplenishLimit - avail, 0)
    IN  IF extra >= ReplenishThreshold
        THEN [s EXCEPT !.head = (s.head + Min(extra, room)) % RoverMod,
                       !.replenished = t]
        ELSE s

\* fair_group::maybe_replenish_capacity(local_ts)
maybe_replenish_capacity(s, t) ==
    IF accumulated_in(t - s.group_replenish) >= ReplenishThreshold
    THEN replenish_capacity([s EXCEPT !.group_replenish = t], t)
    ELSE s

\* ------------------------------------------------------- heap membership
push_priority_class(s, c) ==
    LET a == Asserted(s, s.pcs[c].plugged /\ ~s.pcs[c].queued, "push_priority_class")
    IN  IF a.failed # "" THEN a
        ELSE [a EXCEPT !.handles = HeapPush(s.handles, c, s.pcs),
                       !.pcs[c].queued = TRUE]

max_deviation(sh) == (FixedPointFactor * TauTicks) \div sh

\* the maximum taken on the unsigned values
push_from_idle_unsigned(s, c) ==
    IF s.pcs[c].queued THEN s
    ELSE LET lhs == (s.last_accumulated - max_deviation(s.pcs[c].shares)) % AccMod
             rhs == s.pcs[c].accumulated
             pcs1 == [s.pcs EXCEPT ![c].accumulated = Max(lhs, rhs)]
         IN  [s EXCEPT !.pcs = [pcs1 EXCEPT ![c].queued = TRUE],
                       !.handles = HeapPush(s.handles, c, pcs1)]

\* a push from idle that leaves the accumulated value as it was
push_from_idle_as_is(s, c) ==
    IF s.pcs[c].queued THEN s
    ELSE [s EXCEPT !.pcs[c].queued = TRUE,
                   !.handles = HeapPush(s.handles, c, s.pcs)]

\* fair_queue::push_priority_class_from_idle
push_priority_class_from_idle(s, c) ==
    IF s.pcs[c].queued THEN s
    ELSE LET lhs == ToSigned((s.last_accumulated - max_deviation(s.pcs[c].shares)) % AccMod)
             rhs == ToSigned(s.pcs[c].accumulated)
             acc == Max(lhs, rhs) % AccMod
             pcs1 == [s.pcs EXCEPT ![c].accumulated = acc]
         IN  [s EXCEPT !.pcs = [pcs1 EXCEPT ![c].queued = TRUE],
                       !.handles = HeapPush(s.handles, c, pcs1)]

\* the heap's pop removes its top, whichever class pc is
pop_priority_class(s, c) ==
    LET a == Asserted(s, s.pcs[c].plugged /\ s.pcs[c].queued, "pop_priority_class")
    IN  IF a.failed # "" THEN a
        ELSE IF s.handles = <<>> THEN [a EXCEPT !.failed = "pop of an empty heap"]
        ELSE [a EXCEPT !.pcs[c].queued = FALSE,
                       !.handles = HeapPop(s.handles, s.pcs)]

plug_priority_class(s, c) ==
    LET a == Asserted(s, ~s.pcs[c].plugged /\ ~s.pcs[c].queued, "plug_priority_class")
        p == [a EXCEPT !.pcs[c].plugged = TRUE]
    IN  IF a.failed # "" THEN a
        ELSE IF p.pcs[c].queue # <<>> THEN push_priority_class_from_idle(p, c)
        ELSE p

unplug_priority_class(s, c) ==
    LET a == Asserted(s, s.pcs[c].plugged, "unplug_priority_class")
        p == IF a.pcs[c].queued THEN pop_priority_class(a, c) ELSE a
    IN  IF a.failed # "" THEN a
        ELSE IF p.failed # "" THEN p
        ELSE [p EXCEPT !.pcs[c].plugged = FALSE]

\* --------------------------------------------------------------- capacity
\* grab results: [s: the state, gr: "grabbed" | "pending" | "cant_preempt" |
\* "failed", via: which of the two functions decided, excess: the tokens
\* given back to the group]
never_blocked(r) == FALSE
\* the reservation's head target is still ahead of the group's head
pending_blocked(r) == capacity_deficiency(r, r.pending.head) # 0

\* the reservation covers the request: the excess goes back to the group
take_pending(r, cap) ==
    [(IF cap < r.pending.cap THEN release_capacity(r, r.pending.cap - cap) ELSE r)
     EXCEPT !.pending = NoPending]

grab_pending_capacity(s, ent, t) ==
    LET r == maybe_replenish_capacity(s, t)
        cap == ticket_capacity(ent.ticket)
    IN  IF pending_blocked(r)
        THEN [s |-> r, gr |-> "pending", via |-> "pending", excess |-> 0]
        ELSE IF cap > r.pending.cap
        THEN [s |-> r, gr |-> "cant_preempt", via |-> "pending", excess |-> 0]
        ELSE [s |-> take_pending(r, cap), gr |-> "grabbed", via |-> "pending",
              excess |-> r.pending.cap - cap]

\* grab_capacity that goes to the group whether or not a reservation exists
grab_capacity_anew(s, ent, t) ==
    LET cap == ticket_capacity(ent.ticket)
        g == grab_capacity_group(s, cap)
        want_head == g.tail
    IN  IF g.failed # ""
        THEN [s |-> g, gr |-> "failed", via |-> "fresh", excess |-> 0]
        ELSE IF capacity_deficiency(g, want_head) # 0
        THEN [s |-> [g EXCEPT !.pending = [set |-> TRUE, head |-> want_head,
                                           cap |-> cap]],
              gr |-> "pending", via |-> "fresh", excess |-> 0]
        ELSE [s |-> g, gr |-> "grabbed", via |-> "fresh", excess |-> 0]

grab_capacity(s, ent, t) ==
    IF s.pending.set THEN grab_pending_capacity(s, ent, t)
    ELSE LET cap == ticket_capacity(ent.ticket)
             g == grab_capacity_group(s, cap)
             want_head == g.tail
         IN  IF g.failed # ""
             THEN [s |-> g, gr |-> "failed", via |-> "fresh", excess |-> 0]
             ELSE IF capacity_deficiency(g, want_head) # 0
             THEN [s |-> [g EXCEPT !.pending = [set |-> TRUE, head |-> want_head,
                                                cap |-> cap]],
                   gr |-> "pending", via |-> "fresh", excess |-> 0]
             ELSE [s |-> g, gr |-> "grabbed", via |-> "fresh", excess |-> 0]

\* ---------------------------------------------------------------- dispatch
\* the overflow loop of dispatch_requests, over _priority_classes in index
\* order from class c on; h._accumulated is read anew for every class
RECURSIVE RenormalizeAt(_, _, _, _)
RenormalizeAt(pcs, h, c, bits) ==
    IF c > NClasses THEN pcs
    ELSE RenormalizeAt(
            IF ~pcs[c].present THEN pcs
            ELSE IF pcs[c].queued
            THEN [pcs EXCEPT ![c].accumulated = (@ - pcs[h].accumulated) % 2 ^ bits]
            ELSE [pcs EXCEPT ![c].accumulated = 0],
            h, c + 1, bits)

Renormalize(pcs, h, c) == RenormalizeAt(pcs, h, c, AccBits)

\* every request costs its class the same, whatever the shares
flat_cost(cap, sh) == Max(sh \div sh, 1)

\* the capacity over the shares without the floor of 1
unfloored_cost(cap, sh) == cap \div sh

\* req_cost: the capacity over the shares, at least 1
req_cost_of(cap, sh) == Max(cap \div sh, 1)

account_executing(s, t) ==
    [s EXCEPT !.resources_executing = TicketAdd(@, t),
              !.requests_executing = @ + 1]
\* the counters move the request from queued to executing
account_dispatched(s, t) ==
    [s EXCEPT !.resources_executing = TicketAdd(@, t),
              !.resources_queued = TicketSub(@, t),
              !.requests_executing = @ + 1,
              !.requests_queued = @ - 1]

\* the same body with _last_accumulated left where it was before the dispatch
dispatch_grabbed_unmarked(s, h, bits) ==
    LET req == front(s.pcs[h].queue)
        s1 == s
        s2 == pop_priority_class(s1, h)
        s3 == account_dispatched([s2 EXCEPT !.pcs[h].queue = pop_front(@)], req.ticket)
        req_cap == ticket_capacity(req.ticket)
        req_cost == req_cost_of(req_cap, s3.pcs[h].shares)
        s4 == IF s3.pcs[h].accumulated >= 2 ^ (bits - 1) - 1 - req_cost
              THEN [s3 EXCEPT !.pcs = RenormalizeAt(s3.pcs, h, 1, bits),
                              !.last_accumulated = 0]
              ELSE s3
        s5 == [s4 EXCEPT !.pcs[h].accumulated = (@ + req_cost) % 2 ^ bits,
                         !.pcs[h].pure_accumulated = @ + req_cap]
    IN  IF s2.failed # "" THEN s2 ELSE s5

\* the body of the loop once grab_capacity returned grabbed, up to cb(req)
\* (capacity_t taken bits wide)
dispatch_grabbed_at(s, h, bits) ==
    LET req == front(s.pcs[h].queue)
        s1 == [s EXCEPT !.last_accumulated = Max(s.pcs[h].accumulated, s.last_accumulated)]
        s2 == pop_priority_class(s1, h)
        s3 == account_dispatched([s2 EXCEPT !.pcs[h].queue = pop_front(@)], req.ticket)
        req_cap == ticket_capacity(req.ticket)
        req_cost == req_cost_of(req_cap, s3.pcs[h].shares)
        s4 == IF s3.pcs[h].accumulated >= 2 ^ (bits - 1) - 1 - req_cost
              THEN [s3 EXCEPT !.pcs = RenormalizeAt(s3.pcs, h, 1, bits),
                              !.last_accumulated = 0]
              ELSE s3
        s5 == [s4 EXCEPT !.pcs[h].accumulated = (@ + req_cost) % 2 ^ bits,
                         !.pcs[h].pure_accumulated = @ + req_cap]
    IN  IF s2.failed # "" THEN s2 ELSE s5

dispatch_grabbed(s, h) == dispatch_grabbed_at(s, h, AccBits)

\* the tail of the loop body, after cb(req)
dispatch_repush(s, h) ==
    IF s.pcs[h].plugged /\ s.pcs[h].queue # <<>>
    THEN push_priority_class(s, h) ELSE s

\* the loop after the while: every class set aside is pushed back
RECURSIVE dispatch_finish(_, _)
dispatch_finish(s, pre) ==
    IF pre = <<>> \/ s.failed # "" THEN s
    ELSE dispatch_finish(push_priority_class(s, Head(pre)), Tail(pre))

\* the while condition without the per-call budget
LoopUnbudgeted == handles # <<>>

LoopCondition ==
    handles # <<>> /\ dispatched < ReplenishLimit \div SmpCount

\* ------------------------------------------------------ the other calls
\* fair_queue::queue
queue_entry(s, c, ent) ==
    LET s1 == IF s.pcs[c].plugged THEN push_priority_class_from_idle(s, c) ELSE s
    IN  [s1 EXCEPT !.pcs[c].queue = push_back(@, ent),
                   !.resources_queued = TicketAdd(@, ent.ticket),
                   !.requests_queued = @ + 1]

\* the ticket leaves the counter and stays on the entry
cancelled_kept(s, c, i) ==
    [s EXCEPT !.resources_queued = TicketSub(@, s.pcs[c].queue[i].ticket)]

\* fair_queue::notify_request_cancelled, on the i-th entry of class c's FIFO
request_cancelled(s, c, i) ==
    [s EXCEPT !.resources_queued = TicketSub(@, s.pcs[c].queue[i].ticket),
              !.pcs[c].queue[i].ticket = ZeroTicket]

\* the counters move, the tokens are not given back
finished_unreleased(s, t) ==
    [s EXCEPT !.resources_executing = TicketSub(@, t),
              !.requests_executing = @ - 1]

\* fair_queue::notify_request_finished
request_finished(s, t) ==
    release_capacity([s EXCEPT !.resources_executing = TicketSub(@, t),
                               !.requests_executing = @ - 1],
                     ticket_capacity(t))

\* ----------------------------------------------------------------- actions
Running == failed = "" /\ history = <<>>
Idle == Running /\ dpc = "idle"

\* the bound on the environment: it keeps calling into the queue only while
\* an entry is queued or is still to be queued
WorkLeft ==
    \/ next_id < MaxEntries
    \/ handles # <<>>
    \/ \E c \in Classes : priority_classes[c].queue # <<>>

\* ------------------------------------------------------ fair_queue_ticket
\* the components of a ticket are uint32_t, here TicketBits wide
TicketMod == 2 ^ TicketBits

\* a uint32_t value read as int32_t
ToInt32(x) == IF x >= TicketMod \div 2 THEN x - TicketMod ELSE x

\* the component-wise difference cut at zero, on plain integers
plain_difference(a, b) == <<Max(a[1] - b[1], 0), Max(a[2] - b[2], 0)>>

\* wrapping_difference(a, b): the unsigned difference of each component goes
\* through std::max<int32_t>(.., 0) and back into a uint32_t
wrapping_difference(a, b) ==
    <<Max(ToInt32((a[1] - b[1]) % TicketMod), 0) % TicketMod,
      Max(ToInt32((a[2] - b[2]) % TicketMod), 0) % TicketMod>>

NoTickets == [a |-> ZeroTicket, b |-> ZeroTicket, d |-> ZeroTicket, done |-> FALSE]

\* ------------------------------------------------------------- staircase
\* staircase(def): the only step is the default at the end of the x-range
NewStairs(def) == << <<XMax, def>> >>

\* operator()(x): the value of the first step whose x is not below x
staircase_at(st, x) ==
    LET i == CHOOSE i \in 1..Len(st) :
                 /\ x <= st[i][1]
                 /\ \A j \in 1..i - 1 : ~(x <= st[j][1])
    IN  st[i][2]

\* add_step that puts the new step in front of all the others
add_step_front(st, x, y) ==
    IF x = XMax THEN st ELSE << <<x, y>> >> \o st

\* add_step(x, y): throws at the end of the x-range, otherwise the new step
\* goes in front of the first step whose x is not below x
add_step(st, x, y) ==
    IF x = XMax THEN st
    ELSE LET pos == CHOOSE i \in 1..Len(st) :
                        /\ ~(st[i][1] < x)
                        /\ \A j \in 1..i - 1 : st[j][1] < x
         IN  SubSeq(st, 1, pos - 1) \o << <<x, y>> >> \o SubSeq(st, pos, Len(st))

\* set_default(y)
set_default(st, y) == [st EXCEPT ![Len(st)] = <<st[Len(st)][1], y>>]

\* get_default()
get_default(st) == st[Len(st)][2]

\* the objects next to the queue, not in use
OthersIdle ==
    /\ tickets = NoTickets
    /\ steps = NewStairs(0)
    /\ added = <<>>

Init ==
    /\ priority_classes = [c \in Classes |-> NullClass]
    /\ handles = <<>>
    /\ last_accumulated = 0
    /\ pending = NoPending
    /\ group_replenish = 0
    /\ resources_executing = ZeroTicket
    /\ resources_queued = ZeroTicket
    /\ requests_executing = 0
    /\ requests_queued = 0
    /\ capacity_tail \in PeerGrabs
    /\ capacity_head = ReplenishLimit
    /\ replenished = 0
    /\ failed = ""
    /\ ndebug \in BOOLEAN
    /\ now = 0
    /\ dpc = "idle"
    /\ dispatched = 0
    /\ preempt = <<>>
    /\ gr = NoGrab
    /\ cb_last = NoCall
    /\ executing = [t \in TicketInputs \cup {ZeroTicket} |-> 0]
    /\ next_id = 0
    /\ share_updates = 0
    /\ history = <<>>
    /\ pending_owner = NoOwner
    /\ shards = [sh \in Shards |-> IdleShard]
    /\ tally = NoTally
    /\ OthersIdle

\* _priority_classes.resize(id + 1): the table has the slots up to id
resize(pcs, c) ==
    [k \in Classes |-> IF k <= c THEN [pcs[k] EXCEPT !.slot = TRUE] ELSE pcs[k]]

\* _priority_classes.size()
TableSize(pcs) == Cardinality({k \in Classes : pcs[k].slot})

\* a slot of the table whose pointer is null
EmptySlot == [NullClass EXCEPT !.slot = TRUE]

\* register_priority_class without its assertion
register_unchecked(s, c, sh) ==
    [s EXCEPT !.pcs = [resize(s.pcs, c) EXCEPT ![c] = NewClass(sh)]]

\* register_priority_class(id, shares): an id beyond the table grows it, an
\* id inside it is asserted to be free; the new class replaces the slot
register_class(s, c, sh) ==
    LET a == IF ~s.pcs[c].slot
             THEN [s EXCEPT !.pcs = resize(s.pcs, c)]
             ELSE Asserted(s, ~s.pcs[c].present, "register_priority_class")
    IN  IF a.failed # "" THEN a ELSE [a EXCEPT !.pcs[c] = NewClass(sh)]

\* unregister_priority_class(id): the class is asserted to exist with an empty
\* FIFO; the slot's pointer is reset
unregister_class(s, c) ==
    LET a == Asserted(s, s.pcs[c].present /\ s.pcs[c].queue = <<>>,
                      "unregister_priority_class")
    IN  IF a.failed # "" THEN a ELSE [a EXCEPT !.pcs[c] = EmptySlot]

\* a class object destroyed while _handles still holds its pointer: the later
\* reads through the pointer either fault or find what the slot holds now
destroyed(s, c, fault) ==
    IF s.failed = "" /\ InHeap(s.handles, c) /\ fault
    THEN [s EXCEPT !.failed = "use after free"]
    ELSE s

register_priority_class(c, sh) ==
    /\ Idle /\ WorkLeft
    /\ ~priority_classes[c].present
    /\ Commit(register_class(Cur, c, sh))
    /\ UNCHANGED <<lvars, evars>>

\* update_shares_for_class that starts the class's accounting afresh
update_shares_afresh(c, sh) ==
    /\ Idle /\ WorkLeft
    /\ priority_classes[c].present
    /\ share_updates < MaxShareUpdates
    /\ priority_classes' = [priority_classes EXCEPT ![c].shares = Max(sh, 1),
                                                    ![c].accumulated = 0,
                                                    ![c].pure_accumulated = 0]
    /\ share_updates' = share_updates + 1
    /\ UNCHANGED <<handles, last_accumulated, pending, group_replenish,
                   resources_executing, resources_queued, requests_executing,
                   requests_queued, capacity_tail, capacity_head, replenished,
                   failed, lvars, ndebug, now, cb_last, executing, next_id, history, pending_owner, gvars>>

update_shares_for_class(c, sh) ==
    /\ Idle /\ WorkLeft
    /\ priority_classes[c].present
    /\ share_updates < MaxShareUpdates
    /\ priority_classes' = [priority_classes EXCEPT ![c].shares = Max(sh, 1)]
    /\ share_updates' = share_updates + 1
    /\ UNCHANGED <<handles, last_accumulated, pending, group_replenish,
                   resources_executing, resources_queued, requests_executing,
                   requests_queued, capacity_tail, capacity_head, replenished,
                   failed, lvars, ndebug, now, cb_last, executing, next_id, history, pending_owner, gvars>>

queue(c, t) ==
    /\ Idle
    /\ priority_classes[c].present
    /\ next_id < MaxEntries
    /\ Commit(queue_entry(Cur, c, [id |-> next_id + 1, ticket |-> t]))
    /\ next_id' = next_id + 1
    /\ UNCHANGED <<lvars, ndebug, now, cb_last, executing, share_updates, history, pending_owner, gvars>>

notify_request_finished(t) ==
    /\ Idle
    /\ executing[t] > 0
    /\ Commit(request_finished(Cur, t))
    /\ executing' = [executing EXCEPT ![t] = @ - 1]
    /\ UNCHANGED <<lvars, ndebug, now, cb_last, next_id, share_updates, history, pending_owner, gvars>>

notify_request_cancelled(c, i) ==
    /\ Idle
    /\ priority_classes[c].present
    /\ i \in 1..Len(priority_classes[c].queue)
    /\ priority_classes[c].queue[i].ticket # ZeroTicket
    /\ Commit(request_cancelled(Cur, c, i))
    /\ UNCHANGED <<lvars, evars>>

plug_class(c) ==
    /\ Idle /\ WorkLeft
    /\ priority_classes[c].present
    /\ ~priority_classes[c].plugged
    /\ Commit(plug_priority_class(Cur, c))
    /\ UNCHANGED <<lvars, evars>>

unplug_class(c) ==
    /\ Idle /\ WorkLeft
    /\ priority_classes[c].present
    /\ priority_classes[c].plugged
    /\ Commit(unplug_priority_class(Cur, c))
    /\ UNCHANGED <<lvars, evars>>

\* dispatch_requests is entered: its locals are initialised
DispatchBegin ==
    /\ Idle
    /\ dpc' = "loop"
    /\ dispatched' = 0
    /\ preempt' = <<>>
    /\ gr' = NoGrab
    /\ UNCHANGED <<qvars, evars>>

\* one pass of the while loop whose top class has an empty FIFO
DispatchSkipEmpty ==
    /\ Running /\ dpc = "loop" /\ LoopCondition
    /\ priority_classes[top(handles)].queue = <<>>
    /\ Commit(pop_priority_class(Cur, top(handles)))
    /\ UNCHANGED <<lvars, evars>>

\* one pass of the while loop that calls grab_capacity
DispatchIter ==
    /\ Running /\ dpc = "loop" /\ LoopCondition
    /\ priority_classes[top(handles)].queue # <<>>
    /\ LET h == top(handles)
           req == front(priority_classes[h].queue)
           g == grab_capacity(Cur, req, now)
       IN  /\ gr' = [result |-> g.gr, via |-> g.via, excess |-> g.excess]
           /\ pending_owner' = IF g.gr = "pending" /\ g.via = "fresh"
                                THEN [cls |-> h, id |-> req.id] ELSE pending_owner
           /\ CASE g.gr = "failed" ->
                   /\ Commit(g.s)
                   /\ UNCHANGED <<dpc, dispatched, preempt, cb_last, executing>>
             [] g.gr = "pending" ->
                   /\ Commit(dispatch_finish(g.s, preempt))
                   /\ dpc' = "idle"
                   /\ dispatched' = 0
                   /\ UNCHANGED <<preempt, cb_last, executing>>
             [] g.gr = "cant_preempt" ->
                   /\ Commit(pop_priority_class(g.s, h))
                   /\ preempt' = Append(preempt, h)
                   /\ UNCHANGED <<dpc, dispatched, cb_last, executing>>
             [] g.gr = "grabbed" ->
                   LET d == dispatch_grabbed(g.s, h)
                   IN  IF d.failed # ""
                       THEN /\ Commit(d)
                            /\ UNCHANGED <<dpc, dispatched, preempt, cb_last, executing>>
                       ELSE /\ Commit(dispatch_repush(d, h))
                            /\ dispatched' = dispatched + ticket_capacity(req.ticket)
                            /\ cb_last' = [n |-> cb_last.n + 1, cls |-> h,
                                            id |-> req.id, ticket |-> req.ticket]
                            /\ executing' = [executing EXCEPT ![req.ticket] = @ + 1]
                            /\ UNCHANGED <<dpc, preempt>>
    /\ UNCHANGED <<ndebug, now, next_id, share_updates, history, gvars>>

\* the while condition fails: the classes set aside are pushed back
DispatchEnd ==
    /\ Running /\ dpc = "loop" /\ ~LoopCondition
    /\ Commit(dispatch_finish(Cur, preempt))
    /\ dpc' = "idle"
    /\ dispatched' = 0
    /\ UNCHANGED <<preempt, gr, evars>>

\* the steady clock advances by one rate_resolution tick
Tick ==
    /\ Running /\ WorkLeft
    /\ now < MaxTime
    /\ now' = now + 1
    /\ UNCHANGED <<qvars, lvars, ndebug, cb_last, executing, next_id, share_updates, history, pending_owner, gvars>>

Next ==
    \/ \E c \in 1..MainIds, sh \in RegisterShares : register_priority_class(c, sh)
    \/ \E c \in Classes, sh \in ShareInputs : update_shares_for_class(c, sh)
    \/ \E c \in Classes, t \in TicketInputs : queue(c, t)
    \/ \E t \in TicketInputs \cup {ZeroTicket} : notify_request_finished(t)
    \/ \E c \in Classes, i \in 1..MaxEntries : notify_request_cancelled(c, i)
    \/ \E c \in Classes : plug_class(c)
    \/ \E c \in Classes : unplug_class(c)
    \/ DispatchBegin
    \/ DispatchSkipEmpty
    \/ DispatchIter
    \/ DispatchEnd
    \/ Tick

Spec == Init /\ [][Next]_vars

\* a pass of the loop of dispatch_requests, or its return
DispatchStep == DispatchSkipEmpty \/ DispatchIter \/ DispatchEnd

\* dispatch_requests is inside its loop; a DispatchStep is enabled in exactly
\* these states
InLoop == Running /\ dpc = "loop"

\* dispatch_requests does not suspend: once entered, its loop runs on. This is
\* WF_vars(DispatchStep) with ENABLED <<DispatchStep>>_vars written as InLoop
LoopRunsOn == []<>(~InLoop) \/ []<><<DispatchStep>>_vars

\* the reactor calls dispatch_requests on every poll and the steady clock
\* keeps advancing
SpecLive ==
    /\ Spec
    /\ LoopRunsOn
    /\ WF_vars(DispatchBegin)
    /\ WF_vars(Tick)

\* ------------------------------------------- callers that break the rules
\* register_priority_class on an id that holds a class
reregister_priority_class(c, sh) ==
    /\ Idle /\ WorkLeft
    /\ priority_classes[c].present
    /\ \E fault \in BOOLEAN :
          Commit(destroyed(register_class(Cur, c, sh), c, fault))
    /\ UNCHANGED <<lvars, evars>>

\* unregister_priority_class on a slot of the table, whatever it holds
unregister_priority_class(c) ==
    /\ Idle /\ WorkLeft
    /\ priority_classes[c].slot
    /\ \E fault \in BOOLEAN :
          Commit(destroyed(unregister_class(Cur, c), c, fault))
    /\ UNCHANGED <<lvars, evars>>

\* unregister_priority_class by a caller that keeps its rule: the class
\* exists and its FIFO is empty
unregister_idle_class(c) ==
    /\ Idle /\ WorkLeft
    /\ priority_classes[c].present
    /\ priority_classes[c].queue = <<>>
    /\ \E fault \in BOOLEAN :
          Commit(destroyed(unregister_class(Cur, c), c, fault))
    /\ UNCHANGED <<lvars, evars>>

\* the calls of Spec and the unregistering of classes whose FIFO is empty
NextRetire ==
    \/ Next
    \/ \E c \in Classes : unregister_idle_class(c)

SpecRetire == Init /\ [][NextRetire]_vars

\* the calls on the class table next to the traffic through the classes
NextTable ==
    \/ \E c \in Classes, sh \in RegisterShares : register_priority_class(c, sh)
    \/ \E c \in Classes, sh \in RegisterShares : reregister_priority_class(c, sh)
    \/ \E c \in Classes : unregister_priority_class(c)
    \/ \E c \in Classes, t \in TicketInputs : queue(c, t)
    \/ \E t \in TicketInputs \cup {ZeroTicket} : notify_request_finished(t)
    \/ \E c \in Classes, i \in 1..MaxEntries : notify_request_cancelled(c, i)
    \/ DispatchBegin
    \/ DispatchSkipEmpty
    \/ DispatchIter
    \/ DispatchEnd

SpecTable == Init /\ [][NextTable]_vars

\* ------------------------------------------------------- the wake-up hint
\* microseconds in one tick of rate_resolution
UsPerTick == 1000

\* accumulated_capacity(delta): std::round(_replenish_rate * rate_cast(delta)),
\* delta in microseconds
accumulated_capacity(delta) ==
    (2 * ReplenishRate * delta + UsPerTick) \div (2 * UsPerTick)

\* capacity_duration(cap): rate_resolution(cap / _replenish_rate), a division
\* of two capacity_t values
capacity_duration(cap) == cap \div ReplenishRate

\* std::chrono::duration_cast<std::chrono::microseconds> of rate_resolution
\* ticks
to_microseconds(ticks) == ticks * UsPerTick

\* steady_clock::time_point::max()
TimeMax == [max |-> TRUE, us |-> 0]

\* next_pending_aio() called at tick t of the clock
next_pending_aio(s, t) ==
    IF s.pending.set
    THEN LET over == capacity_deficiency(s, s.pending.head)
             ticks == capacity_duration(over)
         IN  [max |-> FALSE, us |-> t * UsPerTick + to_microseconds(ticks)]
    ELSE TimeMax

\* ------------------------------------------------- ticket arithmetic alone
TicketValues == (0..TicketMod - 1) \X (0..TicketMod - 1)

\* a fresh queue next to two tickets of any value
InitTicket ==
    /\ priority_classes = [c \in Classes |-> NullClass]
    /\ handles = <<>>
    /\ last_accumulated = 0
    /\ pending = NoPending
    /\ group_replenish = 0
    /\ resources_executing = ZeroTicket
    /\ resources_queued = ZeroTicket
    /\ requests_executing = 0
    /\ requests_queued = 0
    /\ capacity_tail = 0
    /\ capacity_head = ReplenishLimit
    /\ replenished = 0
    /\ failed = ""
    /\ ndebug = FALSE
    /\ now = 0
    /\ dpc = "idle"
    /\ dispatched = 0
    /\ preempt = <<>>
    /\ gr = NoGrab
    /\ cb_last = NoCall
    /\ executing = [t \in TicketInputs \cup {ZeroTicket} |-> 0]
    /\ next_id = 0
    /\ share_updates = 0
    /\ history = <<>>
    /\ pending_owner = NoOwner
    /\ shards = [sh \in Shards |-> IdleShard]
    /\ tally = NoTally
    /\ tickets \in {[NoTickets EXCEPT !.a = a, !.b = b] : a, b \in TicketValues}
    /\ steps = NewStairs(0)
    /\ added = <<>>

\* d = wrapping_difference(a, b)
Subtract ==
    /\ ~tickets.done
    /\ tickets' = [tickets EXCEPT !.d = wrapping_difference(tickets.a, tickets.b),
                                  !.done = TRUE]
    /\ UNCHANGED <<qvars, lvars, ndebug, now, cb_last, executing, next_id,
                   share_updates, history, pending_owner, shards, tally, steps,
                   added>>

NextTicket == Subtract

SpecTicket == InitTicket /\ [][NextTicket]_vars

\* ------------------------------------------------------ a staircase alone
StepValues == {1, 2}
DefaultValues == {0, 3}

\* staircase(0) next to a fresh queue
InitStairs == Init /\ ~ndebug /\ capacity_tail = 0

\* add_step(x, y), also at the end of the x-range and at an x added before
AddStep(x, y) ==
    /\ Len(added) < MaxSteps
    /\ steps' = add_step(steps, x, y)
    /\ added' = IF x = XMax THEN added ELSE Append(added, <<x, y>>)
    /\ UNCHANGED <<qvars, lvars, ndebug, now, cb_last, executing, next_id,
                   share_updates, history, pending_owner, shards, tally, tickets>>

SetDefault(y) ==
    /\ steps' = set_default(steps, y)
    /\ UNCHANGED <<qvars, lvars, ndebug, now, cb_last, executing, next_id,
                   share_updates, history, pending_owner, shards, tally, tickets,
                   added>>

NextStairs ==
    \/ \E x \in 0..XMax, y \in StepValues : AddStep(x, y)
    \/ \E y \in DefaultValues : SetDefault(y)

SpecStairs == InitStairs /\ [][NextStairs]_vars

\* ------------------------------------------------- a queue with a history
\* queue(c, t), dispatch_requests and notify_request_finished(t) in a row, on
\* a queue whose FIFOs are empty and whose gate is full
Served(s, c, t) ==
    LET ent == [id |-> 0, ticket |-> t]
        g == grab_capacity(queue_entry(s, c, ent), ent, 0)
    IN  request_finished(dispatch_repush(dispatch_grabbed(g.s, c), c), t)

\* the calls made before the run starts: requests served in classes 2, 3 and
\* 1, a request queued into class 1, and the peer shards' grabs
AgedHistory ==
    << [op |-> "serve", cls |-> 2, ticket |-> <<1, 0>>],
       [op |-> "serve", cls |-> 2, ticket |-> <<1, 0>>],
       [op |-> "serve", cls |-> 2, ticket |-> <<0, 1>>],
       [op |-> "serve", cls |-> 3, ticket |-> <<1, 0>>],
       [op |-> "serve", cls |-> 3, ticket |-> <<0, 1>>],
       [op |-> "serve", cls |-> 1, ticket |-> <<1, 0>>],
       [op |-> "serve", cls |-> 1, ticket |-> <<1, 0>>],
       [op |-> "queue", cls |-> 1, ticket |-> <<0, 1>>],
       [op |-> "peers", cls |-> 0, ticket |-> ZeroTicket] >>

\* NClasses classes of one share each are registered, the gate is full
InitAged ==
    /\ priority_classes = [c \in Classes |-> NewClass(1)]
    /\ handles = <<>>
    /\ last_accumulated = 0
    /\ pending = NoPending
    /\ group_replenish = 0
    /\ resources_executing = ZeroTicket
    /\ resources_queued = ZeroTicket
    /\ requests_executing = 0
    /\ requests_queued = 0
    /\ capacity_tail = 0
    /\ capacity_head = ReplenishLimit
    /\ replenished = 0
    /\ failed = ""
    /\ ndebug \in BOOLEAN
    /\ now = 0
    /\ dpc = "idle"
    /\ dispatched = 0
    /\ preempt = <<>>
    /\ gr = NoGrab
    /\ cb_last = NoCall
    /\ executing = [t \in TicketInputs \cup {ZeroTicket} |-> 0]
    /\ next_id = 0
    /\ share_updates = 0
    /\ history = AgedHistory
    /\ pending_owner = NoOwner
    /\ shards = [sh \in Shards |-> IdleShard]
    /\ tally = NoTally
    /\ OthersIdle

\* the next call of the history
ServeHistory ==
    /\ failed = "" /\ history # <<>>
    /\ LET e == Head(history)
       IN  \E p \in PeerGrabs :
            /\ e.op # "peers" => p = 0
            /\ Commit([(CASE e.op = "serve" -> Served(Cur, e.cls, e.ticket)
                          [] e.op = "queue" ->
                               queue_entry(Cur, e.cls, [id |-> 0, ticket |-> e.ticket])
                          [] e.op = "peers" -> Cur)
                       EXCEPT !.tail = (@ + p) % RoverMod])
    /\ history' = Tail(history)
    /\ UNCHANGED <<lvars, ndebug, now, cb_last, executing, next_id, share_updates,
                   pending_owner, gvars>>

\* the callers of this run leave the classes plugged and their shares alone,
\* so that the class at the top of the heap always has an entry
NextAged ==
    \/ ServeHistory
    \/ \E c \in Classes, t \in TicketInputs : queue(c, t)
    \/ \E t \in TicketInputs \cup {ZeroTicket} : notify_request_finished(t)
    \/ \E c \in Classes, i \in 1..MaxEntries + 1 : notify_request_cancelled(c, i)
    \/ DispatchBegin
    \/ DispatchIter
    \/ DispatchEnd
    \/ Tick

SpecAged == InitAged /\ [][NextAged]_vars

\* ------------------------------------------ shards racing on the gate
\* compare_exchange_weak(cur, ...) stores when the rover still holds cur
blind_exchange(val, cur) == TRUE

cas_ok(val, cur) == val = cur

\* the compare-exchange on the replenish timestamp is won by one caller
replenish_always(val, cur) == TRUE

replenish_won(val, cur) == val = cur

\* the tokens the head may still take before it is limit ahead of the tail
ReplenishRoom(head, tail) ==
    LET ahead == (head - tail) % RoverMod
        avail == IF ahead < RoverMod \div 2 THEN ahead ELSE ahead - RoverMod
    IN  Max(ReplenishLimit - avail, 0)

\* the tail of a fresh group and tails about to wrap
GateStarts == {0, RoverMod - 2, RoverMod - 3}

InitGate ==
    /\ priority_classes = [c \in Classes |-> NullClass]
    /\ handles = <<>>
    /\ last_accumulated = 0
    /\ pending = NoPending
    /\ group_replenish = 0
    /\ resources_executing = ZeroTicket
    /\ resources_queued = ZeroTicket
    /\ requests_executing = 0
    /\ requests_queued = 0
    /\ capacity_tail \in GateStarts
    /\ capacity_head = (capacity_tail + ReplenishLimit) % RoverMod
    /\ replenished = 0
    /\ failed = ""
    /\ ndebug = TRUE
    /\ now = 0
    /\ dpc = "idle"
    /\ dispatched = 0
    /\ preempt = <<>>
    /\ gr = NoGrab
    /\ cb_last = NoCall
    /\ executing = [t \in TicketInputs \cup {ZeroTicket} |-> 0]
    /\ next_id = 0
    /\ share_updates = 0
    /\ history = <<>>
    /\ pending_owner = NoOwner
    /\ shards = [sh \in Shards |-> IdleShard]
    /\ tally = [NoTally EXCEPT !.tail0 = capacity_tail, !.head0 = capacity_head]
    /\ OthersIdle

\* everything but the gate, the clock and the shards
fvars == <<priority_classes, handles, last_accumulated, pending, group_replenish,
           resources_executing, resources_queued, requests_executing,
           requests_queued, failed, lvars, ndebug, cb_last, executing, next_id,
           share_updates, history, pending_owner, pvars>>

\* grab_capacity: cur = _capacity_tail.load()
GrabLoad(sh, cap) ==
    /\ shards[sh].pc = "idle" /\ tally.calls < MaxGateCalls
    /\ shards' = [shards EXCEPT ![sh].pc = "grab", ![sh].cur = capacity_tail,
                                ![sh].cap = cap]
    /\ tally' = [tally EXCEPT !.calls = @ + 1]
    /\ UNCHANGED <<fvars, capacity_tail, capacity_head, replenished, now>>

\* grab_capacity: one turn of while (!compare_exchange_weak(cur, cur + cap));
\* a failed exchange reloads cur, a successful one returns
GrabExchange(sh) ==
    /\ shards[sh].pc = "grab"
    /\ IF cas_ok(capacity_tail, shards[sh].cur)
       THEN /\ capacity_tail' = (shards[sh].cur + shards[sh].cap) % RoverMod
            /\ shards' = [shards EXCEPT ![sh].pc = "idle",
                             ![sh].target = (shards[sh].cur + shards[sh].cap) % RoverMod,
                             ![sh].order = tally.order + 1,
                             ![sh].goal = tally.tail0 + tally.grabbed + shards[sh].cap]
            /\ tally' = [tally EXCEPT !.grabbed = @ + shards[sh].cap,
                                      !.order = @ + 1]
       ELSE /\ shards' = [shards EXCEPT ![sh].cur = capacity_tail]
            /\ UNCHANGED <<capacity_tail, tally>>
    /\ UNCHANGED <<fvars, capacity_head, replenished, now>>

\* release_capacity: cur = _capacity_head.load()
ReleaseLoad(sh, cap) ==
    /\ shards[sh].pc = "idle" /\ tally.calls < MaxGateCalls
    /\ shards' = [shards EXCEPT ![sh].pc = "release", ![sh].cur = capacity_head,
                                ![sh].cap = cap]
    /\ tally' = [tally EXCEPT !.calls = @ + 1]
    /\ UNCHANGED <<fvars, capacity_tail, capacity_head, replenished, now>>

\* release_capacity: one turn of while (!compare_exchange_weak(cur, cur + cap))
ReleaseExchange(sh) ==
    /\ shards[sh].pc = "release"
    /\ IF cas_ok(capacity_head, shards[sh].cur)
       THEN /\ capacity_head' = (shards[sh].cur + shards[sh].cap) % RoverMod
            /\ shards' = [shards EXCEPT ![sh].pc = "idle"]
            /\ tally' = [tally EXCEPT !.released = @ + shards[sh].cap]
       ELSE /\ shards' = [shards EXCEPT ![sh].cur = capacity_head]
            /\ UNCHANGED <<capacity_head, tally>>
    /\ UNCHANGED <<fvars, capacity_tail, replenished, now>>

\* maybe_replenish_capacity(local_ts) up to the load of the bucket's timestamp
\* in replenish(now): the call returns when too little time has passed on the
\* shard's clock or on the bucket's
ReplenishLoad(sh) ==
    /\ shards[sh].pc = "idle" /\ tally.calls < MaxGateCalls
    /\ accumulated_in(now - shards[sh].ts) >= ReplenishThreshold
    /\ shards' = [shards EXCEPT
                    ![sh].ts = now, ![sh].at = now, ![sh].cur = replenished,
                    ![sh].pc = IF accumulated_in(now - replenished) >= ReplenishThreshold
                               THEN "replenish" ELSE "idle"]
    /\ tally' = [tally EXCEPT !.calls = @ + 1]
    /\ UNCHANGED <<fvars, capacity_tail, capacity_head, replenished, now>>

\* replenish(now): the compare-exchange of the timestamp; the loser returns
ReplenishExchange(sh) ==
    /\ shards[sh].pc = "replenish"
    /\ IF replenish_won(replenished, shards[sh].cur)
       THEN /\ replenished' = shards[sh].at
            /\ shards' = [shards EXCEPT ![sh].pc = "add",
                             ![sh].cap = accumulated_in(shards[sh].at - shards[sh].cur)]
            /\ tally' = [tally EXCEPT !.credited = @ + shards[sh].at - shards[sh].cur]
       ELSE /\ shards' = [shards EXCEPT ![sh].pc = "idle"]
            /\ UNCHANGED <<replenished, tally>>
    /\ UNCHANGED <<fvars, capacity_tail, capacity_head, now>>

\* replenish(now): the winner adds the tokens to the head
ReplenishAdd(sh) ==
    /\ shards[sh].pc = "add"
    /\ capacity_head' = (capacity_head
                         + Min(shards[sh].cap, ReplenishRoom(capacity_head, capacity_tail)))
                        % RoverMod
    /\ shards' = [shards EXCEPT ![sh].pc = "idle"]
    /\ tally' = [tally EXCEPT !.added = @ + Min(shards[sh].cap,
                                   ReplenishRoom(capacity_head, capacity_tail))]
    /\ UNCHANGED <<fvars, capacity_tail, replenished, now>>

GateTick ==
    /\ now < MaxTime
    /\ now' = now + 1
    /\ UNCHANGED <<fvars, capacity_tail, capacity_head, replenished, gvars>>

GateCaps == {ticket_capacity(t) : t \in TicketInputs}

NextGate ==
    \/ \E sh \in Shards, cap \in GateCaps : GrabLoad(sh, cap)
    \/ \E sh \in Shards : GrabExchange(sh)
    \/ \E sh \in Shards, cap \in GateCaps : ReleaseLoad(sh, cap)
    \/ \E sh \in Shards : ReleaseExchange(sh)
    \/ \E sh \in Shards : ReplenishLoad(sh)
    \/ \E sh \in Shards : ReplenishExchange(sh)
    \/ \E sh \in Shards : ReplenishAdd(sh)
    \/ GateTick

SpecGate == InitGate /\ [][NextGate]_vars

\* the aged queue with a caller that unplugs and plugs class 1
NextAgedPlug ==
    \/ NextAged
    \/ plug_class(1)
    \/ unplug_class(1)

SpecAgedPlug == InitAged /\ [][NextAgedPlug]_vars

\* ------------------------------------- one class ahead of the idle ones
\* the calls made before the run starts: three requests served in class 1,
\* a request queued into it, and the peer shards' grabs
NewcomerHistory ==
    << [op |-> "serve", cls |-> 1, ticket |-> <<1, 0>>],
       [op |-> "serve", cls |-> 1, ticket |-> <<1, 0>>],
       [op |-> "serve", cls |-> 1, ticket |-> <<1, 0>>],
       [op |-> "queue", cls |-> 1, ticket |-> <<0, 1>>],
       [op |-> "peers", cls |-> 0, ticket |-> ZeroTicket] >>

\* NClasses classes of one share each are registered, the gate is full
InitNewcomer ==
    /\ priority_classes = [c \in Classes |-> NewClass(1)]
    /\ handles = <<>>
    /\ last_accumulated = 0
    /\ pending = NoPending
    /\ group_replenish = 0
    /\ resources_executing = ZeroTicket
    /\ resources_queued = ZeroTicket
    /\ requests_executing = 0
    /\ requests_queued = 0
    /\ capacity_tail = 0
    /\ capacity_head = ReplenishLimit
    /\ replenished = 0
    /\ failed = ""
    /\ ndebug \in BOOLEAN
    /\ now = 0
    /\ dpc = "idle"
    /\ dispatched = 0
    /\ preempt = <<>>
    /\ gr = NoGrab
    /\ cb_last = NoCall
    /\ executing = [t \in TicketInputs \cup {ZeroTicket} |-> 0]
    /\ next_id = 0
    /\ share_updates = 0
    /\ history = NewcomerHistory
    /\ pending_owner = NoOwner
    /\ shards = [sh \in Shards |-> IdleShard]
    /\ tally = NoTally
    /\ OthersIdle

\* classes 2 and 3 have been idle all along; class 2 is unplugged and plugged
NextNewcomer ==
    \/ NextAged
    \/ plug_class(2)
    \/ unplug_class(2)

SpecNewcomer == InitNewcomer /\ [][NextNewcomer]_vars

\* ------------------------------------- two classes backlogged for good
\* the shares of classes 1 and 2
ShareOf == <<300, 100>>

\* the per-request capacities of the runs: below the smaller share, between
\* the two, above both but few times so, and from seven times the larger on
SmallCaps == {50, 150, 1000, 2099}
LargeCaps == {2100, 2399, 3000}

\* the client keeps Backlog entries in the FIFO of either class
Backlog == 2

ShareHistory(cap) ==
    [i \in 1..2 * Backlog |->
        [op |-> "queue", cls |-> ((i - 1) % 2) + 1, ticket |-> <<0, cap>>]]

InitShare ==
    /\ priority_classes = [c \in Classes |->
            IF c <= Len(ShareOf) THEN NewClass(ShareOf[c]) ELSE NullClass]
    /\ handles = <<>>
    /\ last_accumulated = 0
    /\ pending = NoPending
    /\ group_replenish = 0
    /\ resources_executing = ZeroTicket
    /\ resources_queued = ZeroTicket
    /\ requests_executing = 0
    /\ requests_queued = 0
    /\ capacity_tail = 0
    /\ capacity_head = ReplenishLimit
    /\ replenished = 0
    /\ failed = ""
    /\ ndebug = TRUE
    /\ now = 0
    /\ dpc = "idle"
    /\ dispatched = 0
    /\ preempt = <<>>
    /\ gr = NoGrab
    /\ cb_last = NoCall
    /\ executing = [t \in TicketInputs \cup {ZeroTicket} |-> 0]
    /\ next_id = 0
    /\ share_updates = 0
    /\ \E cap \in SmallCaps \cup LargeCaps : history = ShareHistory(cap)
    /\ pending_owner = NoOwner
    /\ shards = [sh \in Shards |-> IdleShard]
    /\ tally = NoTally
    /\ OthersIdle

Backlogged(c) == Len(priority_classes[c].queue) = Backlog

\* one pass of the loop of dispatch_requests on which grab_capacity returns
\* grabbed: capacity is always available
ShareDispatch ==
    /\ Running /\ handles # <<>>
    /\ \A c \in 1..Len(ShareOf) : Backlogged(c)
    /\ cb_last.n < MaxDispatches
    /\ LET h == top(handles)
           req == front(priority_classes[h].queue)
       IN  /\ Commit(dispatch_repush(dispatch_grabbed_at(Cur, h, ShareBits), h))
           /\ cb_last' = [n |-> cb_last.n + 1, cls |-> h, id |-> req.id,
                          ticket |-> req.ticket]
    /\ UNCHANGED <<lvars, ndebug, now, executing, next_id, share_updates, history,
                   pending_owner, gvars>>

\* fair_queue::queue, called by the client of a class that had an entry
\* dispatched, with a request of the same cost
ShareQueue(c) ==
    /\ Running /\ priority_classes[c].present
    /\ priority_classes[c].queue # <<>> /\ ~Backlogged(c)
    /\ Commit(queue_entry(Cur, c, [id |-> 0,
                                   ticket |-> front(priority_classes[c].queue).ticket]))
    /\ UNCHANGED <<lvars, evars>>

NextShare ==
    \/ ServeHistory
    \/ ShareDispatch
    \/ \E c \in Classes : ShareQueue(c)

SpecShare == InitShare /\ [][NextShare]_vars

\* ------------------------------------------------------------- properties
\* the step calls cb
CbStep == cb_last'.n = cb_last.n + 1

FifoIds(q) == [i \in 1..Len(q) |-> q[i].id]

FifoOf(c) == priority_classes[c].queue

Accumulated(c) == priority_classes[c].accumulated

PreemptSet == {preempt[i] : i \in 1..Len(preempt)}

\* no step of dispatch_requests calls cb, takes an entry out of a FIFO, moves
\* the counters or advances the gate tail
NothingDispatched ==
    /\ cb_last' = cb_last
    /\ \A c \in Classes : priority_classes'[c].queue = priority_classes[c].queue
    /\ UNCHANGED <<requests_queued, requests_executing, resources_queued,
                   resources_executing, executing, capacity_tail>>

\* C1: within a class cb gets the entries in the order they were queued. The
\* entries carry the number of their queue() call; a FIFO holds them in
\* increasing order, it changes only by queue() appending the newest entry
\* or by cb taking its first entry, and cb is called for no other entry.
C1_FifoOrder ==
    [][\A c \in Classes :
        LET q == FifoOf(c)
            q2 == priority_classes'[c].queue
        IN  /\ \A i, j \in 1..Len(q2) : i < j => q2[i].id < q2[j].id
            /\ \/ /\ FifoIds(q2) = FifoIds(q)
                  /\ ~(CbStep /\ cb_last'.cls = c)
               \/ /\ FifoIds(q2) = Append(FifoIds(q), next_id + 1)
                  /\ next_id' = next_id + 1
                  /\ ~CbStep
               \/ /\ q # <<>>
                  /\ FifoIds(q2) = Tail(FifoIds(q))
                  /\ CbStep /\ cb_last'.cls = c
                  /\ cb_last'.id = q[1].id
                  /\ \A i \in 1..Len(q2) : q2[i].id > cb_last'.id]_vars

\* a single class got two entries and cb has been called for both
C1_Witness ==
    /\ cb_last.n = 2 /\ cb_last.id = 2
    /\ \E c \in Classes :
        /\ cb_last.cls = c
        /\ priority_classes[c].pure_accumulated > ticket_capacity(cb_last.ticket)
        /\ \A d \in Classes \ {c} : ~priority_classes[d].present

\* C2: every entry handed to cb is the first entry of a class that is in the
\* heap and whose accumulated value is the least among the classes in the
\* heap at that moment.
C2_LeastAccumulatedFirst ==
    [][CbStep =>
        LET c == cb_last'.cls
        IN  /\ InHeap(handles, c)
            /\ FifoOf(c) # <<>>
            /\ cb_last'.id = FifoOf(c)[1].id
            /\ \A i \in 1..Len(handles) : Accumulated(c) <= Accumulated(handles[i])]_vars

\* C3: cb is never called for an entry of a class that is unplugged, and no
\* entry leaves the FIFO of a class that is unplugged.
C3_UnpluggedNotDispatched ==
    [][/\ CbStep => priority_classes[cb_last'.cls].plugged
       /\ \A c \in Classes :
            (priority_classes[c].present /\ ~priority_classes[c].plugged)
                => \A i \in 1..Len(FifoOf(c)) :
                      /\ i <= Len(priority_classes'[c].queue)
                      /\ priority_classes'[c].queue[i].id = FifoOf(c)[i].id]_vars

\* C4: between the calls, a class with its queued flag set is plugged and
\* has a non-empty FIFO.
C4_QueuedIsPluggedNonEmpty ==
    Idle => \A c \in Classes :
              (priority_classes[c].present /\ priority_classes[c].queued)
                  => priority_classes[c].plugged /\ FifoOf(c) # <<>>

\* C5: no class is in the heap more than once.
C5_NoDuplicateInHeap ==
    \A c \in Classes : HeapCount(handles, c) <= 1

\* C6: unplug_class(c) of a queued class takes c and nothing else out of the
\* heap; every other class keeps its place in the heap, its queued flag,
\* its accumulated value and its FIFO.
C6_UnplugRemovesOnlyThatClass ==
    [][\A c \in Classes :
        (unplug_class(c) /\ priority_classes[c].queued /\ failed' = "")
            => /\ ~InHeap(handles', c)
               /\ \A d \in Classes \ {c} :
                    /\ InHeap(handles, d) => InHeap(handles', d)
                    /\ HeapCount(handles', d) = HeapCount(handles, d)
                    /\ priority_classes'[d] = priority_classes[d]]_vars

RECURSIVE FifoTotal(_)
FifoTotal(c) == IF c = 0 THEN 0 ELSE Len(FifoOf(c)) + FifoTotal(c - 1)

\* C7: requests_queued is the number of entries in the FIFOs of all the
\* classes, the cancelled ones that were not dispatched yet included.
C7_WaitersCountFifoEntries ==
    requests_queued = FifoTotal(NClasses)

\* two entries wait, one of them cancelled
C7_Witness ==
    /\ requests_queued = 2
    /\ \E c \in Classes : \E i \in 1..Len(FifoOf(c)) : FifoOf(c)[i].ticket = ZeroTicket
    /\ cb_last.n = 0

\* C8: a pass of the loop that finds a reservation whose head target is
\* still short after the lazy replenish dispatches nothing and ends the
\* call; a pass whose fresh grab is short stores the reservation (the tail
\* after the grab, the capacity grabbed), calls cb for nothing and ends the
\* call.
C8_PendingBlocksDispatch ==
    [][DispatchIter =>
        LET r == maybe_replenish_capacity(Cur, now)
            cap == ticket_capacity(FifoOf(handles[1])[1].ticket)
        IN  /\ (pending.set /\ capacity_deficiency(r, pending.head) # 0)
                => /\ NothingDispatched
                   /\ pending' = pending
                   /\ dpc' = "idle"
            /\ (~pending.set
                /\ capacity_deficiency(Cur, (capacity_tail + cap) % RoverMod) # 0)
                => /\ pending' = [set |-> TRUE,
                                  head |-> (capacity_tail + cap) % RoverMod,
                                  cap |-> cap]
                   /\ capacity_tail' = pending'.head
                   /\ cb_last' = cb_last
                   /\ \A c \in Classes : priority_classes'[c].queue = FifoOf(c)
                   /\ dpc' = "idle"]_vars

\* a call found the reservation of an earlier call still short although the
\* lazy replenish had added tokens
C8_Witness ==
    /\ Idle
    /\ gr.result = "pending" /\ gr.via = "pending"
    /\ pending.set
    /\ group_replenish > 0
    /\ capacity_deficiency(Cur, pending.head) # 0
    /\ requests_queued > 0

\* C9: a pass of the loop that finds a satisfied reservation of P tokens and
\* a first entry of cost c <= P calls cb for that entry, gives P - c tokens
\* back to the gate (the head advances by P - c, the tail stays) and
\* clears the reservation.
C9_PendingCoversEntry ==
    [][DispatchIter =>
        LET r == maybe_replenish_capacity(Cur, now)
            req == FifoOf(handles[1])[1]
            cap == ticket_capacity(req.ticket)
        IN  (pending.set /\ capacity_deficiency(r, pending.head) = 0
             /\ cap <= pending.cap)
                => /\ CbStep
                   /\ cb_last'.cls = handles[1] /\ cb_last'.id = req.id
                   /\ pending' = NoPending
                   /\ capacity_head' = (r.head + (pending.cap - cap)) % RoverMod
                   /\ capacity_tail' = capacity_tail]_vars

JumpsReservation ==
    /\ CbStep
    /\ pending.set /\ gr'.via = "pending"
    /\ cb_last'.cls # pending_owner.cls
    /\ ticket_capacity(cb_last'.ticket) < pending.cap

\* C11 as stated: no entry of another class with a smaller cost is
\* dispatched on a reservation ahead of the entry that made it.
C11_NoJumpOfReservation ==
    [][~JumpsReservation]_vars

\* C11: an entry of another class with a smaller cost is dispatched on a
\* reservation only when its class is at the top of the heap, the place the
\* maker's class had when it made the reservation; a class behind the top
\* does not jump.
C11_NoJumpFromBehind ==
    [][JumpsReservation => (handles # <<>> /\ handles[1] = cb_last'.cls)]_vars

\* an entry of another class was dispatched on a reservation at a smaller
\* cost while the entry that made the reservation still waits
C11_Witness ==
    /\ Running
    /\ gr.result = "grabbed" /\ gr.via = "pending" /\ gr.excess > 0
    /\ pending_owner.cls \in Classes
    /\ cb_last.cls # pending_owner.cls
    /\ \E i \in 1..Len(FifoOf(pending_owner.cls)) :
          FifoOf(pending_owner.cls)[i].id = pending_owner.id

\* ---------------------------------------------------------------- C12
\* C12: whatever the interleaving of the shards' compare-exchange loops, the
\* tail stands at its initial value plus the sum of the grabs that returned and
\* the head at its initial value plus the sum of the releases that returned
\* (and the tokens replenish added), modulo the rover width: no update is lost
\* or applied twice
C12_GateConservation ==
    /\ capacity_tail = (tally.tail0 + tally.grabbed) % RoverMod
    /\ capacity_head = (tally.head0 + tally.released + tally.added) % RoverMod

\* a shard is inside grab_capacity with a stale cur, its exchange about to
\* fail, because another shard's grab went in between; releases have returned
\* as well and the tail has wrapped
C12_Witness ==
    /\ \E a, b \in Shards :
          /\ a # b
          /\ shards[a].pc = "grab" /\ shards[a].cur # capacity_tail
          /\ shards[b].order > 0
    /\ tally.released >= 2
    /\ capacity_tail < tally.tail0

\* ---------------------------------------------------------------- C13
\* the tokens of the requests dispatched so far: their reservations were
\* crossed by the head
RECURSIVE AdmittedUpTo(_)
AdmittedUpTo(c) ==
    IF c = 0 THEN 0
    ELSE priority_classes[c].pure_accumulated + AdmittedUpTo(c - 1)

Admitted == AdmittedUpTo(NClasses)

\* C13: over the interval from the start of the run to now, the tokens the
\* gate admitted are at most limit + rate * (length of the interval), whatever
\* the interleaving of grabs, completions and replenishes
C13_ThroughputBound ==
    Running => Admitted <= ReplenishLimit + accumulated_in(now)

\* ---------------------------------------------------------------- C14
\* the tokens in the bucket: head - tail, wrap-aware
Available ==
    LET ahead == (capacity_head - capacity_tail) % RoverMod
    IN  IF ahead < RoverMod \div 2 THEN ahead ELSE ahead - RoverMod

\* C14: in every reachable state the tokens available in the gate never exceed
\* the limit of the token bucket
C14_AvailableWithinLimit ==
    Running => Available <= ReplenishLimit

\* ---------------------------------------------------------------- C15
\* shard a's latest grab went onto the tail before shard b's
GrabbedBefore(a, b) ==
    shards[a].order > 0 /\ shards[b].order > 0 /\ shards[a].order < shards[b].order

Deficiency(sh) == capacity_deficiency(Cur, shards[sh].target)

\* C15: when shard a's grab went onto the tail before shard b's, a's head
\* target is not after b's, wrap-aware, and whenever b's reservation has
\* no deficiency a's has none either
C15_EarlierGrabSatisfiedFirst ==
    \A a, b \in Shards :
        GrabbedBefore(a, b) =>
            /\ (shards[b].target - shards[a].target) % RoverMod < RoverMod \div 2
            /\ Deficiency(b) = 0 => Deficiency(a) = 0

\* two shards grabbed one after the other across the wrap of the tail; the
\* earlier reservation is satisfied and the later one still waits
C15_Witness ==
    \E a, b \in Shards :
        /\ GrabbedBefore(a, b)
        /\ shards[b].target < shards[a].target
        /\ Deficiency(a) = 0 /\ Deficiency(b) > 0

\* ---------------------------------------------------------------- C16
\* C16: however the shards' calls of maybe_replenish and replenish interleave,
\* every tick of elapsed time is credited to the head at most once: the ticks
\* credited by the shards sum to no more than the time the shared timestamp
\* has advanced, and the tokens added to no more than that time earns
C16_ReplenishOncePerPeriod ==
    /\ tally.credited <= replenished
    /\ tally.added <= accumulated_in(replenished)

\* two shards called replenish for the same period: one has won and added
\* tokens to the head, the other still holds the old timestamp and is about
\* to lose the exchange
C16_Witness ==
    \E a, b \in Shards :
        /\ a # b
        /\ shards[a].pc = "replenish" /\ shards[a].cur # replenished
        /\ shards[b].pc = "idle" /\ shards[b].at = replenished
        /\ tally.added > 0

\* ---------------------------------------------------------------- C17
\* the capacity of a request of the run, and the requests of class c dispatched
ShareCap == ticket_capacity(front(priority_classes[1].queue).ticket)

Dispatched(c) == priority_classes[c].pure_accumulated \div ShareCap

RatioWithin ==
    /\ 27 * Dispatched(2) <= 10 * Dispatched(1)
    /\ 10 * Dispatched(1) <= 33 * Dispatched(2)

\* C17 as stated: after MaxDispatches dispatches of two backlogged classes of
\* shares 300 and 100, dispatched(A) / dispatched(B) is within [2.7, 3.3],
\* whatever the capacity of the requests
C17_ProportionalAnyCost ==
    (Running /\ cb_last.n = MaxDispatches) => RatioWithin

\* C17, amended: the ratio is within [2.7, 3.3] when the capacity of a request
\* is at least seven times the larger share
C17_ProportionalLargeCost ==
    (Running /\ cb_last.n = MaxDispatches /\ ShareCap >= 7 * ShareOf[1])
        => RatioWithin

\* the run has made all its dispatches with a request capacity that the
\* division by the shares truncates
C17_Witness ==
    /\ Running /\ cb_last.n = MaxDispatches
    /\ ShareCap >= 7 * ShareOf[1]
    /\ ShareCap % ShareOf[1] # 0 /\ ShareCap % ShareOf[2] # 0
    /\ Dispatched(1) > 0 /\ Dispatched(2) > 0

\* ---------------------------------------------------------------- C18
\* class b enters the heap from idle: by queue on it or by plug_class
BecomesActive(b) ==
    /\ dpc = "idle" /\ dpc' = "idle"
    /\ priority_classes[b].present
    /\ ~priority_classes[b].queued /\ priority_classes'[b].queued

\* class a is in the heap with entries to dispatch
BackloggedClass(a) ==
    priority_classes[a].queued /\ priority_classes[a].queue # <<>>

\* the highest cost a request can have: the largest capacity on one share
MaxReqCost == req_cost_of(ReplenishLimit, 1)

\* what class a must still be charged before class b, just activated, is
\* ahead of it in the heap
Lag(b, a) ==
    ToSigned((priority_classes'[b].accumulated - priority_classes[a].accumulated)
             % AccMod)

\* class b is active and waits for a dispatch
Waiting(b) ==
    /\ priority_classes[b].plugged /\ priority_classes[b].queued
    /\ priority_classes[b].queue # <<>>

\* C18: when class b becomes active while class a is backlogged, b enters the
\* heap at most a's tau allowance plus one maximal request cost behind a,
\* whatever a's history, and it stays in the heap (or set aside by the running
\* dispatch_requests) until it is dispatched: b is dispatched after a was
\* charged at most tau plus a request cost
C18_NewcomerWithinTau ==
    /\ [][\A a, b \in Classes :
         (Running /\ failed' = "" /\ a # b /\ BecomesActive(b) /\ BackloggedClass(a))
            => Lag(b, a) <= max_deviation(priority_classes[a].shares) + MaxReqCost]_vars
    /\ [](Running =>
            \A b \in Classes : Waiting(b) => (InHeap(handles, b) \/ b \in PreemptSet))

\* ---------------------------------------------------------------- C19
\* last_dispatched_accumulated - handicap of class c, as a signed value
Handicapped(c) ==
    ToSigned((last_accumulated - max_deviation(priority_classes[c].shares)) % AccMod)

\* the step dispatches a request of a class whose accumulator is at the
\* overflow check: the accumulators are renormalized
Renormalizes ==
    /\ CbStep
    /\ priority_classes[cb_last'.cls].accumulated >=
          SignedMax - req_cost_of(ticket_capacity(cb_last'.ticket),
                                  priority_classes[cb_last'.cls].shares)

\* C19: a class that enters the heap from idle (queue on it, or plug_class with
\* a non-empty FIFO) gets accumulated = max(accumulated, last_accumulated -
\* handicap) taken on signed values; and no step but a renormalization
\* decreases the accumulated value of a class
C19_PushFromIdle ==
    [][failed' = "" =>
         /\ \A c \in Classes :
               (Running /\ BecomesActive(c)) =>
                  ToSigned(priority_classes'[c].accumulated)
                     = Max(ToSigned(priority_classes[c].accumulated), Handicapped(c))
         /\ \A c \in Classes :
               (priority_classes[c].present /\ ~Renormalizes) =>
                  ToSigned(priority_classes'[c].accumulated)
                     >= ToSigned(priority_classes[c].accumulated)]_vars

\* a class with charges on it has entered the heap from idle while
\* last_accumulated - handicap was negative: it kept its accumulated value,
\* where a maximum on unsigned values would have taken the wrapped difference
C19_Witness ==
    /\ Idle
    /\ \E c \in Classes :
          /\ Waiting(c) /\ InHeap(handles, c)
          /\ priority_classes[c].pure_accumulated > 0
          /\ Handicapped(c) < 0
          /\ priority_classes[c].accumulated > 0
          /\ priority_classes[c].accumulated
                < (last_accumulated - max_deviation(priority_classes[c].shares)) % AccMod

\* ---------------------------------------------------------------- C20
\* the classes that are queued while the overflow loop runs: the dispatched
\* class has been popped by then
QueuedAside == {c \in Classes : c # cb_last'.cls /\ priority_classes[c].present
                                  /\ priority_classes[c].queued}

\* the heap's top has the least accumulated value of the classes in the heap
TopIsLeast(h, pcs) ==
    \A i \in 1..Len(h) : pcs[h[1]].accumulated <= pcs[h[i]].accumulated

\* C20: a dispatch that renormalizes leaves the relative order of the
\* accumulated values of the queued classes as it was, and leaves the class
\* with the least accumulated value on top of the heap
C20_OverflowKeepsOrder ==
    [][(Running /\ failed' = "" /\ Renormalizes) =>
         /\ \A a, b \in QueuedAside :
               (priority_classes[a].accumulated <= priority_classes[b].accumulated)
                  <=> (priority_classes'[a].accumulated <= priority_classes'[b].accumulated)
         /\ TopIsLeast(handles', priority_classes')]_vars

\* ---------------------------------------------------------------- C21
\* the sum of the tickets of a FIFO's entries, and of all FIFOs
RECURSIVE TicketsOf(_)
TicketsOf(q) == IF q = <<>> THEN ZeroTicket ELSE TicketAdd(Head(q).ticket, TicketsOf(Tail(q)))

RECURSIVE TicketsUpTo(_)
TicketsUpTo(c) ==
    IF c = 0 THEN ZeroTicket ELSE TicketAdd(TicketsOf(FifoOf(c)), TicketsUpTo(c - 1))

\* the step cancels the i-th entry of class c
CancelStep(c, i) ==
    /\ i \in 1..Len(FifoOf(c))
    /\ Len(priority_classes'[c].queue) = Len(FifoOf(c))
    /\ FifoOf(c)[i].ticket # ZeroTicket
    /\ priority_classes'[c].queue[i].ticket = ZeroTicket

\* C21: cancelling an entry takes its ticket off resources_queued at once and
\* zeroes it, the entry staying where it is in its FIFO; the dispatch of a
\* cancelled entry takes no token (a fresh grab leaves the tail alone, a
\* reservation it is dispatched on is given back whole); and the queued
\* counters always equal what the entries in the FIFOs add up to, so that
\* after the dispatch they are what they were before the entry was queued
C21_CancelAccounting ==
    /\ [][failed' = "" =>
            /\ \A c \in Classes : \A i \in 1..MaxEntries + 1 :
                  CancelStep(c, i) =>
                     /\ resources_queued' = TicketSub(resources_queued, FifoOf(c)[i].ticket)
                     /\ requests_queued' = requests_queued
                     /\ FifoIds(priority_classes'[c].queue) = FifoIds(FifoOf(c))
            /\ (CbStep /\ cb_last'.ticket = ZeroTicket) =>
                  /\ capacity_tail' = capacity_tail
                  /\ gr'.via = "pending" => gr'.excess = pending.cap]_vars
    /\ [](failed = "" =>
            /\ resources_queued = TicketsUpTo(NClasses)
            /\ requests_queued = FifoTotal(NClasses))

\* an entry was queued, cancelled while a reservation stood, and dispatched on
\* the reservation, which went back whole; nothing is queued any more
C21_Witness ==
    /\ Running
    /\ cb_last.n > 0 /\ cb_last.ticket = ZeroTicket
    /\ gr.via = "pending" /\ gr.excess > 0
    /\ requests_queued = 0 /\ resources_queued = ZeroTicket

\* ---------------------------------------------------------------- C22
\* every FIFO is empty
Drained == \A c \in Classes : FifoOf(c) = <<>>

\* C22: cb is never called with a cancelled entry (an entry whose ticket was
\* zeroed), and resources_queued is zero once the FIFOs are drained
C22_CancelledNotSubmitted ==
    /\ [][(failed' = "" /\ CbStep) => cb_last'.ticket # ZeroTicket]_vars
    /\ []((failed = "" /\ Drained) => resources_queued = ZeroTicket)

\* ---------------------------------------------------------------- C23
\* the step is a call of notify_request_finished: nothing else takes a request
\* out of requests_executing
FinishStep == requests_executing' = requests_executing - 1

RegisterOccupied(c) ==
    \E sh \in RegisterShares : reregister_priority_class(c, sh)
UnregisterNonEmpty(c) ==
    unregister_priority_class(c) /\ priority_classes[c].queue # <<>>
RegisterBeyond(c) ==
    /\ ~priority_classes[c].slot
    /\ \E sh \in RegisterShares : register_priority_class(c, sh)
Rejected == failed' # "" /\ priority_classes' = priority_classes
Grown(c) ==
    /\ failed' = ""
    /\ priority_classes'[c].present /\ priority_classes'[c].queue = <<>>
    /\ TableSize(priority_classes') = c
    /\ \A k \in Classes \ {c} :
          /\ priority_classes'[k].present = priority_classes[k].present
          /\ priority_classes'[k].queue = priority_classes[k].queue

ShareStep == share_updates' = share_updates + 1

\* C25: update_shares_for_class(id, s) stores max(s, 1) as the shares of the
\* class and changes nothing else of the queue: the accumulators, the flags and
\* the FIFO of the class, the other classes, the heap, the reservation and
\* the counters stay; the shares of a class are never below 1; and a dispatch
\* charges the class the request capacity over the shares it has then (the
\* dispatches that renormalize aside)
C25_SharesFrame ==
    /\ [][/\ ShareStep =>
              (/\ \E c \in Classes, sh \in ShareInputs :
                    /\ priority_classes[c].present
                    /\ priority_classes' =
                          [priority_classes EXCEPT ![c].shares = Max(sh, 1)]
               /\ UNCHANGED <<handles, last_accumulated, pending, group_replenish,
                              resources_executing, resources_queued,
                              requests_executing, requests_queued, capacity_tail,
                              capacity_head, replenished, failed>>)
          /\ (failed' = "" /\ CbStep /\ ~Renormalizes) =>
                LET c == cb_last'.cls
                    cost == req_cost_of(ticket_capacity(cb_last'.ticket),
                                        priority_classes[c].shares)
                IN  priority_classes'[c].accumulated =
                       (Accumulated(c) + cost) % AccMod]_vars
    /\ [](\A c \in Classes :
             priority_classes[c].present => priority_classes[c].shares >= 1)

\* the shares of a class were raised to 2 while its request of capacity 2 was
\* queued, and the dispatch has charged the class 1
C25_Witness ==
    /\ share_updates = 1 /\ cb_last.n = 1
    /\ ticket_capacity(cb_last.ticket) = 2
    /\ \E c \in Classes :
          /\ cb_last.cls = c
          /\ priority_classes[c].shares = 2
          /\ priority_classes[c].pure_accumulated = 2
          /\ priority_classes[c].accumulated = 1

\* the head counted without the wrap: the bucket starts full, releases and
\* replenishment add to it
HeadUnwrapped == tally.tail0 + ReplenishLimit + tally.released + tally.added

\* C26: for the head target T a grab returned and the head H, both counted
\* without the wrap and less than half the rover range apart, the deficiency
\* computed on the stored rovers is max(0, T - H); it is zero exactly when
\* H >= T, whether or not either rover has wrapped since the grab
C26_DeficiencyWrapAware ==
    \A sh \in Shards :
        (/\ shards[sh].order > 0
         /\ shards[sh].goal - HeadUnwrapped < RoverMod \div 2
         /\ HeadUnwrapped - shards[sh].goal < RoverMod \div 2)
            => /\ Deficiency(sh) = Max(shards[sh].goal - HeadUnwrapped, 0)
               /\ Deficiency(sh) = 0 <=> HeadUnwrapped >= shards[sh].goal

\* one reservation's target has wrapped while the head has not and tokens are
\* still missing; for another the head stands past the target
C26_Witness ==
    /\ HeadUnwrapped < RoverMod
    /\ \E a, b \in Shards :
          /\ shards[a].order > 0 /\ shards[a].goal >= RoverMod
          /\ shards[a].target < capacity_head
          /\ Deficiency(a) > 0
          /\ shards[b].order > 0 /\ shards[b].goal < HeadUnwrapped
          /\ Deficiency(b) = 0

\* C27: next_pending_aio returns time_point::max exactly when there is no
\* reservation; otherwise the tokens earned at the replenish rate between now
\* and the time it returns are at least the deficiency of the reservation
C27_WakeupSufficient ==
    LET wake == next_pending_aio(Cur, now)
    IN  /\ wake.max <=> ~pending.set
        /\ pending.set =>
              accumulated_capacity(wake.us - now * UsPerTick)
                 >= capacity_deficiency(Cur, pending.head)

\* what the claim has component i of wrapping_difference(a, b) be
CutAtZero(i) ==
    IF tickets.a[i] >= tickets.b[i] THEN tickets.a[i] - tickets.b[i] ELSE 0

\* C28 as stated: each component of wrapping_difference(a, b) is a - b when
\* a >= b, whatever the difference, and 0 when a < b
C28_DifferenceCutAtZero ==
    tickets.done => \A i \in 1..2 : tickets.d[i] = CutAtZero(i)

\* component i of a - b as the wrapped difference read as a signed value has it
SignedCut(i) ==
    LET x == tickets.a[i] - tickets.b[i]
        half == TicketMod \div 2
    IN  CASE x >= half -> 0
          [] x >= 0 /\ x < half -> x
          [] x < 0 /\ x >= -half -> 0
          [] x < -half -> x + TicketMod

\* C28 amended: each component of wrapping_difference(a, b) is a - b when
\* 0 <= a - b < half the component range, 0 when a >= b with a difference of
\* half the range or more, or when a < b by at most half the range, and
\* a - b plus the range when a is more than half the range below b
C28_DifferenceWrapsSigned ==
    tickets.done => \A i \in 1..2 : tickets.d[i] = SignedCut(i)

\* the weight of a is half the range above b's and comes out as 0; the size of
\* a is more than half the range below b's and comes out positive
C28_Witness ==
    /\ tickets.done
    /\ tickets.a[1] - tickets.b[1] >= TicketMod \div 2 /\ tickets.d[1] = 0
    /\ tickets.b[2] - tickets.a[2] > TicketMod \div 2 /\ tickets.d[2] > 0

\* the add_step calls made so far were made at distinct x
DistinctSteps ==
    \A i, j \in 1..Len(added) : i # j => added[i][1] # added[j][1]

\* the steps added at x or above
StepsFrom(x) == {k \in 1..Len(added) : added[k][1] >= x}

\* C29: after add_step calls at distinct x, in whatever order, the lookup of x
\* returns the y of the added step with the smallest x_i >= x, and the
\* default value when x is above every x_i
C29_StaircaseLookup ==
    DistinctSteps =>
        \A x \in 0..XMax :
            IF StepsFrom(x) = {}
            THEN staircase_at(steps, x) = get_default(steps)
            ELSE \E k \in StepsFrom(x) :
                    /\ \A m \in StepsFrom(x) : added[k][1] <= added[m][1]
                    /\ staircase_at(steps, x) = added[k][2]

\* three steps were added at distinct x, the lowest of them second, with
\* different values, and the default was changed
C29_Witness ==
    /\ Len(added) = MaxSteps /\ DistinctSteps
    /\ added[2][1] < added[3][1] /\ added[3][1] < added[1][1]
    /\ added[1][2] # added[3][2]
    /\ get_default(steps) = 3
    /\ staircase_at(steps, added[3][1]) = added[3][2]
    /\ staircase_at(steps, XMax) = 3

\* C30 as stated: after a dispatch of an entry of class h, last_accumulated is
\* at least the accumulated value of h as that dispatch has left it
C30_LastCoversDispatched ==
    [][(failed' = "" /\ CbStep) =>
          last_accumulated' >= priority_classes'[cb_last'.cls].accumulated]_vars

\* C30 amended: a dispatch of an entry of class h sets last_accumulated to the
\* larger of its old value and the accumulated value h had before the
\* dispatch added req_cost to it, or to 0 when the dispatch renormalizes; so
\* after a dispatch that does not renormalize last_accumulated is at least the
\* accumulated value h had before it
C30_LastCoversBefore ==
    [][(failed' = "" /\ CbStep) =>
          LET h == cb_last'.cls
          IN  IF Renormalizes
              THEN last_accumulated' = 0
              ELSE /\ last_accumulated' = Max(last_accumulated, Accumulated(h))
                   /\ last_accumulated' >= Accumulated(h)
                   /\ priority_classes'[h].accumulated > Accumulated(h)]_vars

\* the second request of a class was dispatched: last_accumulated stands at the
\* value the class had before that dispatch, below the value it has now
C30_Witness ==
    /\ failed = "" /\ cb_last.n = 2
    /\ last_accumulated > 0
    /\ last_accumulated < priority_classes[cb_last.cls].accumulated
    /\ priority_classes[cb_last.cls].pure_accumulated
          > ticket_capacity(cb_last.ticket)

\* C31: a dispatch of an entry of capacity cap from class h with shares s adds
\* max(cap / s, 1) to h's accumulated (to 0 when the dispatch renormalizes,
\* which zeroes h first) and cap to h's pure_accumulated; unless it
\* renormalizes it leaves the accumulated of every other class alone, and it
\* never changes another class's pure_accumulated
C31_DispatchCharges ==
    [][(failed' = "" /\ CbStep) =>
          LET h == cb_last'.cls
              cap == ticket_capacity(cb_last'.ticket)
              cost == Max(cap \div priority_classes[h].shares, 1)
          IN  /\ cost >= 1
              /\ priority_classes'[h].accumulated =
                    IF Renormalizes THEN cost ELSE Accumulated(h) + cost
              /\ priority_classes'[h].pure_accumulated =
                    priority_classes[h].pure_accumulated + cap
              /\ \A c \in Classes \ {h} :
                    /\ ~Renormalizes =>
                          priority_classes'[c].accumulated = Accumulated(c)
                    /\ priority_classes'[c].pure_accumulated =
                          priority_classes[c].pure_accumulated]_vars

\* a cancelled entry, of capacity 0, was dispatched from a class of two
\* shares after an entry of capacity 2: the class was charged 1 for each
C31_Witness ==
    /\ failed = "" /\ cb_last.n = 2 /\ cb_last.ticket = ZeroTicket
    /\ priority_classes[cb_last.cls].shares = 2
    /\ priority_classes[cb_last.cls].pure_accumulated = 2
    /\ priority_classes[cb_last.cls].accumulated = 2

\* C32: a dispatch from class h that renormalizes takes h's accumulated value
\* off every other queued class, stopping at 0, zeroes every class that is
\* not queued, zeroes last_accumulated, and leaves h at req_cost, the
\* increment applied to its zeroed value
C32_OverflowStep ==
    [][(Running /\ failed' = "" /\ Renormalizes) =>
          LET h == cb_last'.cls
              cost == req_cost_of(ticket_capacity(cb_last'.ticket),
                                  priority_classes[h].shares)
          IN  /\ \A c \in Classes \ {h} :
                    priority_classes[c].present =>
                       priority_classes'[c].accumulated =
                          IF priority_classes[c].queued
                          THEN Max(Accumulated(c) - Accumulated(h), 0)
                          ELSE 0
              /\ priority_classes'[h].accumulated = cost
              /\ last_accumulated' = 0]_vars

\* the per-call budget of dispatch_requests
Budget == ReplenishLimit \div SmpCount

\* the step returns from dispatch_requests
ReturnStep == dpc = "loop" /\ dpc' = "idle"

\* C33: dispatch_requests returns only when the heap is empty, a grab returned
\* pending or the capacity dispatched in the call has reached the budget; it
\* calls cb for no entry once the dispatched capacity is at or above the
\* budget; and every call returns (or the process aborts on an assertion)
C33_DispatchTerminates ==
    /\ [][/\ ReturnStep =>
                \/ handles = <<>>
                \/ gr'.result = "pending"
                \/ dispatched >= Budget
          /\ CbStep => (dpc = "loop" /\ dispatched < Budget)]_vars
    /\ (dpc = "loop") ~> (dpc = "idle" \/ failed # "")

\* a call has dispatched the budget and returned with an entry still queued
\* and the heap not empty
C33_Witness ==
    /\ Idle /\ cb_last.n = 1
    /\ ticket_capacity(cb_last.ticket) >= Budget
    /\ gr.result = "grabbed"
    /\ handles # <<>> /\ requests_queued > 0

\* C34: every pass of the loop that calls grab_capacity, with or without a
\* reservation, first calls maybe_replenish_capacity: afterwards the
\* shard-local timestamp and the bucket's timestamp stand where that call
\* puts them; the call changes neither the head nor the timestamp when the
\* tokens earned since the shard-local timestamp are below the threshold
C34_ReplenishOnEveryAttempt ==
    [][(DispatchIter /\ failed' = "") =>
          LET r == maybe_replenish_capacity(Cur, now)
          IN  /\ group_replenish' = r.group_replenish
              /\ replenished' = r.replenished
              /\ accumulated_in(now - group_replenish) < ReplenishThreshold
                    => /\ r.head = capacity_head
                       /\ r.group_replenish = group_replenish]_vars

\* the tokens the reservation holds
Held == IF pending.set THEN pending.cap ELSE 0

\* the sum of pure_accumulated after the step
RECURSIVE AdmittedNextUpTo(_)
AdmittedNextUpTo(c) ==
    IF c = 0 THEN 0
    ELSE priority_classes'[c].pure_accumulated + AdmittedNextUpTo(c - 1)

\* the tokens the step gives back to the group out of a reservation
ExcessReleased ==
    IF CbStep /\ gr'.via = "pending" THEN gr'.excess ELSE 0

\* C35: the queue has at most one reservation: while the pending record
\* exists no step moves the tail of the gate; and every token a step takes from
\* the tail either goes into a dispatched entry or into the pending record,
\* whose tokens leave it only into a dispatched entry or back to the group, so
\* the tokens taken and not yet dispatched or released are pending.cap
C35_OneReservation ==
    [][failed' = "" =>
          /\ pending.set => capacity_tail' = capacity_tail
          /\ (pending.set /\ pending'.set) => pending' = pending
          /\ (capacity_tail' - capacity_tail) % RoverMod =
                (AdmittedNextUpTo(NClasses) - Admitted)
                + ((IF pending'.set THEN pending'.cap ELSE 0) - Held)
                + ExcessReleased]_vars

\* with a reservation outstanding a pass of the loop has looked at an entry
\* that costs more than the reservation holds and has set its class aside
C35_Witness ==
    /\ failed = "" /\ pending.set
    /\ dpc = "loop" /\ gr.via = "pending" /\ gr.result = "cant_preempt"
    /\ preempt # <<>>

\* entry i waits in the FIFO of class c
InFifo(c, i) == \E k \in 1..Len(FifoOf(c)) : FifoOf(c)[k].id = i

\* the gate lacks tokens: the reservation is not covered yet, or without a
\* reservation the bucket holds less than the costliest request takes
GateShort ==
    IF pending.set
    THEN capacity_deficiency(Cur, pending.head) # 0
    ELSE \E t \in TicketInputs : Available < ticket_capacity(t)

\* the heap and the flags of the classes disagree: a class marked queued is
\* not in the heap between two calls, or the heap holds an unplugged class
HeapAstray ==
    \/ \E d \in Classes :
          priority_classes[d].queued /\ ~InHeap(handles, d) /\ dpc = "idle"
    \/ \E k \in 1..Len(handles) : ~priority_classes[handles[k]].plugged

\* C36: with dispatch_requests called again and again, an entry that waits in
\* a plugged class is eventually dispatched, unless its class is unplugged,
\* the process aborts, the gate runs short of tokens or the heap has gone
\* astray of the classes' flags
C36_Progress ==
    \A c \in Classes, i \in 1..MaxEntries :
        (InFifo(c, i) /\ priority_classes[c].plugged)
           ~> \/ ~InFifo(c, i)
              \/ ~priority_classes[c].plugged
              \/ failed # ""
              \/ GateShort
              \/ HeapAstray

\* the assertions of the heap bookkeeping
HeapAssertions ==
    {"push_priority_class", "pop_priority_class",
     "plug_priority_class", "unplug_priority_class"}

\* C37: with plug_class called on unplugged classes only and unplug_class on
\* plugged ones, no assertion of push_priority_class, pop_priority_class,
\* plug_priority_class or unplug_priority_class fails.
C37_NoAssertionFails == failed \notin HeapAssertions

\* C38: a class is not in the heap when unregister_priority_class takes it
\* out of the table with its FIFO empty; the heap holds registered classes
\* only and no class is read after it was destroyed.
C38_HeapHoldsRegistered ==
    /\ [][\A c \in Classes :
            unregister_idle_class(c) => ~InHeap(handles, c)]_vars
    /\ [](/\ failed # "use after free"
          /\ \A k \in 1..Len(handles) : priority_classes[handles[k]].present)

\* C39: the accumulated value of every class, read as a signed_capacity_t,
\* is never negative.
C39_AccumulatedSigned ==
    \A c \in Classes :
        priority_classes[c].present => ToSigned(Accumulated(c)) >= 0

\* how far class c is behind the class dispatched last, on signed values
Behind(c) ==
    ToSigned(last_accumulated) - ToSigned(priority_classes[c].accumulated)

\* C40: right after a class has entered the heap from idle it is behind
\* last_accumulated by at most its handicap, fixed_point_factor / shares * tau.
C40_NewcomerAdvantage ==
    [][\A c \in Classes :
         (Running /\ failed' = "" /\ BecomesActive(c))
            => ToSigned(last_accumulated')
                  - ToSigned(priority_classes'[c].accumulated)
               <= max_deviation(priority_classes'[c].shares)]_vars

\* a class that never had a request dispatched waits in the heap with a
\* positive accumulated value, exactly its handicap behind last_accumulated:
\* entering the heap from idle has lifted it to last_accumulated - handicap
C40_Witness ==
    /\ Idle
    /\ \E c \in Classes :
          /\ Waiting(c) /\ InHeap(handles, c)
          /\ last_accumulated > max_deviation(priority_classes[c].shares)
          /\ Behind(c) = max_deviation(priority_classes[c].shares)
          /\ priority_classes[c].pure_accumulated = 0
          /\ priority_classes[c].accumulated > 0
====
